---- MODULE Spec2Model ----
(***************************************************************************)
(* pypippark (src/pypippark.py): a per-user virtualenv manager.            *)
(*                                                                         *)
(* One invocation of the script is a run of main(): the argument parser,   *)
(* ensure_venv, then the verb handler.  Every subprocess.run call is       *)
(* synchronous, so each step of the model is the code up to and including  *)
(* one external process and the wait for its exit code.  The file system   *)
(* (the venv directory, its write access, the packages inside it) lives    *)
(* on between invocations.                                                 *)
(*                                                                         *)
(* Text (paths, PATH values, pip's stdout, package names) is a sequence    *)
(* of tokens; the separators (":", "=", "\n") are tokens of their own.     *)
(***************************************************************************)
EXTENDS Integers, Sequences, FiniteSets, TLC

VARIABLES
    pc,         \* position of the running invocation
    verb,       \* args.cmd
    pkgs,       \* args.pkgs (install, remove); the parsed names in cmd_update
    scriptIsFile, \* os.path.isfile(args.script)
    euid0,      \* os.geteuid() == 0
    dirExists,  \* os.path.isdir(VENV_PATH)
    writable,   \* os.access(VENV_PATH, os.W_OK)
    installed,  \* the packages inside the venv
    bins,       \* the (python_bin, pip_bin) pair ensure_venv returned
    environ,    \* os.environ
    venvArg,    \* the path given to the latest activate_env call
    overlay,    \* the mapping the latest activate_env call returned
    spawned,    \* the external processes of this invocation, in order
    logs,       \* the levels of the log() calls of this invocation, in order
    exitCode,   \* the exit code of the invocation (read when pc = "done")
    listing,    \* what the `pip list` of this invocation printed
    ensured,    \* the pair the first successful ensure_venv call returned
    wanted      \* names of successful installs with no uninstall since

vars == <<pc, verb, pkgs, scriptIsFile, euid0, dirExists, writable, installed,
          bins, environ, venvArg, overlay, spawned, logs, exitCode,
          listing, ensured, wanted>>

invocation == <<pc, verb, pkgs, scriptIsFile, euid0, bins, spawned, logs, exitCode,
                listing>>
filesystem == <<dirExists, writable, installed>>
history    == <<ensured, wanted>>

\* ---- bounds -------------------------------------------------------------
NumPkgs    == 2     \* distinct package names
MaxPkgs    == 2     \* length of a package list on the command line
MaxRC      == 2     \* exit codes of an external process are 0..MaxRC
MaxPathLen == 3     \* tokens in an inherited PATH value

\* ---- text -----------------------------------------------------------------
Last(s)  == s[Len(s)]
Front(s) == SubSeq(s, 1, Len(s) - 1)
Range(s) == {s[i] : i \in 1..Len(s)}

\* str.split(sep) for a one-token separator: k separators give k+1 pieces.
RECURSIVE Split(_, _)
Split(s, sep) ==
    IF \A i \in 1..Len(s) : s[i] # sep THEN <<s>>
    ELSE LET i == CHOOSE k \in 1..Len(s) :
                     s[k] = sep /\ \A j \in 1..(k - 1) : s[j] # sep
         IN  <<SubSeq(s, 1, i - 1)>> \o Split(SubSeq(s, i + 1, Len(s)), sep)

\* str.strip(): the only whitespace pip's freeze output holds is "\n".
RECURSIVE Strip(_)
Strip(s) ==
    IF s = <<>> THEN s
    ELSE IF s[1] = "\n" THEN Strip(Tail(s))
    ELSE IF Last(s) = "\n" THEN Strip(Front(s))
    ELSE s

\* str.splitlines(): no empty last line after a final line break.
SplitLines(s) ==
    LET parts == Split(s, "\n")
    IN  IF Last(parts) = <<>> THEN Front(parts) ELSE parts

\* line.split("==")[0]: the text before the first "==".
BeforeEqEq(line) ==
    IF \E i \in 1..(Len(line) - 1) : line[i] = "=" /\ line[i + 1] = "="
    THEN LET i == CHOOSE k \in 1..(Len(line) - 1) :
                      /\ line[k] = "=" /\ line[k + 1] = "="
                      /\ \A j \in 1..(k - 1) : ~(line[j] = "=" /\ line[j + 1] = "=")
         IN  SubSeq(line, 1, i - 1)
    ELSE line

\* ---- configuration ----------------------------------------------------------
VENV_PATH == <<"~", "/", ".local/share/pypippark-dep">>
SYSTEM_PY == <<"/usr/bin/python3">>
pathsep   == ":"

\* os.path.join(path, "bin", name)
JoinBin(path, name) == path \o <<"/", "bin", "/", name>>
\* os.path.join(path, "bin")
BinDir(path) == path \o <<"/", "bin">>

\* ---- inputs -------------------------------------------------------------------
Verbs    == {"install", "list", "remove", "update", "run"}
PkgNames == {[j \in 1..i |-> "p"] : i \in 1..NumPkgs}
PkgLists == UNION {[1..n -> PkgNames] : n \in 0..MaxPkgs}
RCs      == 0..MaxRC

\* Exit codes the interpreter and the argument parser give the process.
ExitOK             == 0
ExitUncaught       == 1    \* an exception that leaves main()
ExitScriptMissing  == 1    \* sys.exit(1) in cmd_run
ExitUsage          == 2    \* parser.error() in parse_args

\* One finished external process.  out is the captured stdout (only the
\* outdated query captures it); reported is the set of packages pip wrote
\* to it.
Proc(kind, argv, rc) ==
    [kind |-> kind, argv |-> argv, rc |-> rc, out |-> <<>>, reported |-> {}]

\* ---- ensure_venv ----------------------------------------------------------------
\* (a broken variant: the venv is created whether or not the directory exists)
NeedsCreateAlways(exists) == TRUE

\* `if not os.path.isdir(path)`
NeedsCreate(exists) == ~exists

\* `if not os.access(path, os.W_OK) and os.geteuid() == 0`
NeedsChown(w, root) == ~w /\ root

\* (a broken variant: check=True left out, no exit code raises)
check_never(rc) == FALSE

\* subprocess.run(..., check=True) raises CalledProcessError on a non-zero
\* exit code.
check_raises(rc) == rc # 0

\* The pair ensure_venv returns.
venv_bins(path) == <<JoinBin(path, "python3"), JoinBin(path, "pip")>>

\* ---- activate_env ---------------------------------------------------------------
\* env = os.environ.copy(); env["VIRTUAL_ENV"] = path;
\* env["PATH"] = join(path, "bin") + os.pathsep + env.get("PATH", "");
\* env.pop("PYTHONHOME", None)
activate_env(path) ==
    LET old  == IF "PATH" \in DOMAIN environ THEN environ["PATH"] ELSE <<>>
        keys == (DOMAIN environ \cup {"VIRTUAL_ENV", "PATH"}) \ {"PYTHONHOME"}
    IN  [k \in keys |->
            IF k = "VIRTUAL_ENV" THEN path
            ELSE IF k = "PATH" THEN BinDir(path) \o <<pathsep>> \o old
            ELSE environ[k]]

\* ---- pip's freeze output and its parse ------------------------------------------
\* `pip list --outdated --format=freeze` prints one "name==version" line
\* per outdated package.
RECURSIVE Freeze(_)
Freeze(S) ==
    IF S = {} THEN <<>>
    ELSE LET n == CHOOSE x \in S : \A y \in S : Len(x) <= Len(y)
         IN  n \o <<"=", "=", "1.0", "\n">> \o Freeze(S \ {n})

\* `[line.split("==")[0] for line in out.splitlines() if line]`
RECURSIVE NamesOfLines(_)
NamesOfLines(lines) ==
    IF lines = <<>> THEN <<>>
    ELSE (IF lines[1] # <<>> THEN <<BeforeEqEq(lines[1])>> ELSE <<>>)
         \o NamesOfLines(Tail(lines))

\* (a broken variant: the lines are passed on whole, version included)
ParseNamesWholeLine(out) == SelectSeq(SplitLines(out), LAMBDA l : l # <<>>)

ParseNames(out) == NamesOfLines(SplitLines(out))

\* (a broken variant: no early return, the batch upgrade always runs)
NothingOutdatedNever(out) == FALSE

\* `if not out`
NothingOutdated(out) == out = <<>>

\* ---- main: the argument parser ----------------------------------------------------
\* (a broken variant: nargs="*", an empty list is accepted)
ArgsRejectedNever(v, ps) == FALSE

\* nargs="+" for the pkgs of install and remove: an empty list is a usage
\* error.
ArgsRejected(v, ps) == v \in {"install", "remove"} /\ ps = <<>>

\* The handler main() dispatches to, once ensure_venv has returned.
VerbEntry(v) == IF v = "update" THEN "upgrade_pip" ELSE v

\* ---- the state after construction -------------------------------------------------
NoEnv == [k \in {} |-> <<>>]

Fresh ==
    /\ pc = "idle" /\ verb = "list" /\ pkgs = <<>>
    /\ scriptIsFile = FALSE /\ euid0 = FALSE
    /\ dirExists = FALSE /\ writable = FALSE
    /\ installed = {}
    /\ bins = <<>> /\ venvArg = <<>> /\ overlay = NoEnv
    /\ spawned = <<>> /\ logs = <<>> /\ exitCode = ExitOK
    /\ listing = {} /\ ensured = <<>> /\ wanted = {}

Init ==
    /\ Fresh
    /\ environ = [k \in {"PATH", "HOME"} |->
                     IF k = "PATH" THEN <<"/usr/bin", pathsep, "/bin">> ELSE <<"~">>]

\* ---- main ---------------------------------------------------------------------------
\* A new invocation: parse_args, then the dispatch (which starts with
\* ensure_venv in every handler).
main(v, ps, sf, root) ==
    /\ pc \in {"idle", "done"}
    /\ verb' = v /\ pkgs' = ps /\ scriptIsFile' = sf /\ euid0' = root
    /\ bins' = <<>> /\ spawned' = <<>> /\ logs' = <<>> /\ listing' = {}
    /\ IF ArgsRejected(v, ps)
         THEN pc' = "done" /\ exitCode' = ExitUsage
         ELSE pc' = "ensure_venv" /\ exitCode' = ExitOK
    /\ UNCHANGED <<dirExists, writable, installed, environ, venvArg, overlay, history>>

\* ---- ensure_venv, lines 32-34 -------------------------------------------------------
ensure_venv_create ==
    /\ pc = "ensure_venv"
    /\ IF NeedsCreate(dirExists)
         THEN \E rc \in RCs, w \in BOOLEAN :
                /\ spawned' = Append(spawned,
                       Proc("venv", <<SYSTEM_PY, <<"-m">>, <<"venv">>, VENV_PATH>>, rc))
                /\ logs' = Append(logs, "INFO")
                /\ IF check_raises(rc)
                     THEN /\ pc' = "done" /\ exitCode' = ExitUncaught
                          \* a creation that fails may leave the directory behind
                          /\ dirExists' \in BOOLEAN /\ writable' = (dirExists' /\ w)
                     ELSE /\ pc' = "ownership" /\ UNCHANGED exitCode
                          /\ dirExists' = TRUE /\ writable' = w
         ELSE /\ pc' = "ownership"
              /\ UNCHANGED <<spawned, logs, exitCode, dirExists, writable>>
    /\ UNCHANGED <<verb, pkgs, scriptIsFile, euid0, installed, bins,
                   environ, venvArg, overlay, listing, history>>

\* ---- ensure_venv, lines 36-44 -------------------------------------------------------
ensure_venv_chown ==
    /\ pc = "ownership"
    /\ IF NeedsChown(writable, euid0)
         THEN \E rc \in RCs, w \in BOOLEAN :
                /\ spawned' = Append(spawned,
                       Proc("chown", <<<<"chown">>, <<"-R">>, <<"user:user">>, VENV_PATH>>, rc))
                /\ logs' = Append(logs, "WARNING")
                /\ IF check_raises(rc)
                     THEN /\ pc' = "done" /\ exitCode' = ExitUncaught
                          /\ UNCHANGED <<writable, bins, ensured>>
                     ELSE /\ pc' = VerbEntry(verb) /\ UNCHANGED exitCode
                          /\ writable' = w
                          /\ bins' = venv_bins(VENV_PATH)
                          /\ ensured' = IF ensured = <<>> THEN bins' ELSE ensured
         ELSE /\ pc' = VerbEntry(verb)
              /\ bins' = venv_bins(VENV_PATH)
              /\ ensured' = IF ensured = <<>> THEN bins' ELSE ensured
              /\ UNCHANGED <<spawned, logs, exitCode, writable>>
    /\ UNCHANGED <<verb, pkgs, scriptIsFile, euid0, dirExists, installed,
                   environ, venvArg, overlay, listing, wanted>>

\* ---- cmd_install --------------------------------------------------------------------
cmd_install ==
    /\ pc = "install"
    /\ venvArg' = VENV_PATH /\ overlay' = activate_env(VENV_PATH)
    /\ \E rc \in RCs :
         /\ spawned' = Append(spawned, Proc("install", <<bins[2], <<"install">>>> \o pkgs, rc))
         /\ pc' = "done"
         /\ IF check_raises(rc)
              THEN /\ exitCode' = ExitUncaught
                   /\ logs' = Append(logs, "INFO")
              ELSE /\ exitCode' = ExitOK
                   /\ logs' = logs \o <<"INFO", "SUCCESS">>
         \* pip: an install that exits 0 has put the packages into the venv
         /\ installed' = IF rc = 0 THEN installed \cup Range(pkgs) ELSE installed
         /\ wanted' = IF exitCode' = ExitOK THEN wanted \cup Range(pkgs) ELSE wanted
    /\ UNCHANGED <<verb, pkgs, scriptIsFile, euid0, dirExists, writable,
                   bins, environ, listing, ensured>>

\* ---- cmd_list -----------------------------------------------------------------------
cmd_list ==
    /\ pc = "list"
    /\ venvArg' = VENV_PATH /\ overlay' = activate_env(VENV_PATH)
    /\ \E rc \in RCs :
         /\ spawned' = Append(spawned, Proc("list", <<bins[2], <<"list">>>>, rc))
         /\ logs' = Append(logs, "INFO")
         /\ pc' = "done"
         /\ exitCode' = IF check_raises(rc) THEN ExitUncaught ELSE ExitOK
         \* pip: a list that exits 0 has printed the packages of the venv
         /\ listing' = IF rc = 0 THEN installed ELSE listing
    /\ UNCHANGED <<verb, pkgs, scriptIsFile, euid0, filesystem, bins, environ,
                   history>>

\* ---- cmd_remove ---------------------------------------------------------------------
cmd_remove ==
    /\ pc = "remove"
    /\ venvArg' = VENV_PATH /\ overlay' = activate_env(VENV_PATH)
    /\ \E rc \in RCs :
         /\ spawned' = Append(spawned,
                Proc("uninstall", <<bins[2], <<"uninstall">>, <<"-y">>>> \o pkgs, rc))
         /\ pc' = "done"
         /\ IF check_raises(rc)
              THEN /\ exitCode' = ExitUncaught
                   /\ logs' = Append(logs, "WARNING")
              ELSE /\ exitCode' = ExitOK
                   /\ logs' = logs \o <<"WARNING", "SUCCESS">>
         \* pip: an uninstall that exits 0 has taken the packages out
         /\ installed' = IF rc = 0 THEN installed \ Range(pkgs) ELSE installed
         /\ wanted' = {}
    /\ UNCHANGED <<verb, pkgs, scriptIsFile, euid0, dirExists, writable, bins,
                   environ, listing, ensured>>

\* ---- cmd_update, lines 84-90: upgrade pip itself ------------------------------------
cmd_update_pip ==
    /\ pc = "upgrade_pip"
    /\ venvArg' = VENV_PATH /\ overlay' = activate_env(VENV_PATH)
    /\ \E rc \in RCs :
         /\ spawned' = Append(spawned,
                Proc("selfupgrade", <<bins[2], <<"install">>, <<"--upgrade">>, <<"pip">>>>, rc))
         /\ logs' = Append(logs, "INFO")
         /\ IF check_raises(rc)
              THEN pc' = "done" /\ exitCode' = ExitUncaught
              ELSE pc' = "outdated" /\ UNCHANGED exitCode
    /\ UNCHANGED <<verb, pkgs, scriptIsFile, euid0, filesystem, bins, environ,
                   listing, history>>

\* ---- cmd_update, lines 92-105: the outdated query and its parse ---------------------
\* The call has no check=True.  Any of the installed packages may have a
\* newer release by now (the set od).  A query that exits 0 has printed the
\* freeze lines of od; one that fails has printed them or nothing.
cmd_update_outdated ==
    /\ pc = "outdated"
    /\ \E od \in SUBSET installed, rc \in RCs : \E stdout \in {<<>>, Freeze(od)} :
         /\ rc = 0 => stdout = Freeze(od)
         /\ spawned' = Append(spawned,
                [kind |-> "query",
                 argv |-> <<bins[2], <<"list">>, <<"--outdated">>, <<"--format=freeze">>>>,
                 rc |-> rc, out |-> stdout,
                 reported |-> IF stdout = <<>> THEN {} ELSE od])
         /\ LET out == Strip(stdout)
            IN  IF NothingOutdated(out)
                  THEN /\ logs' = logs \o <<"INFO", "SUCCESS">>
                       /\ pc' = "done" /\ exitCode' = ExitOK
                       /\ UNCHANGED pkgs
                  ELSE /\ pkgs' = ParseNames(out)
                       /\ logs' = logs \o <<"INFO", "INFO">>
                       /\ pc' = "batch" /\ UNCHANGED exitCode
    /\ UNCHANGED <<verb, scriptIsFile, euid0, filesystem, bins, environ, venvArg,
                   overlay, listing, history>>

\* ---- cmd_update, lines 106-108: the batch upgrade -----------------------------------
cmd_update_batch ==
    /\ pc = "batch"
    /\ \E rc \in RCs :
         /\ spawned' = Append(spawned,
                Proc("batch", <<bins[2], <<"install">>, <<"--upgrade">>>> \o pkgs, rc))
         /\ pc' = "done"
         /\ IF check_raises(rc)
              THEN exitCode' = ExitUncaught /\ UNCHANGED logs
              ELSE exitCode' = ExitOK /\ logs' = Append(logs, "SUCCESS")
    /\ UNCHANGED <<verb, pkgs, scriptIsFile, euid0, filesystem,
                   bins, environ, venvArg, overlay, listing, history>>

\* (a broken variant: the script is run without the isfile test)
ScriptMissingNever(isfile) == FALSE

\* `if not os.path.isfile(script)`
ScriptMissing(isfile) == ~isfile

\* ---- cmd_run, lines 113-120 ---------------------------------------------------------
cmd_run ==
    /\ pc = "run"
    /\ pc' = "done"
    /\ IF ScriptMissing(scriptIsFile)
         THEN /\ logs' = Append(logs, "ERROR")
              /\ exitCode' = ExitScriptMissing
              /\ UNCHANGED <<spawned, venvArg, overlay>>
         ELSE /\ venvArg' = VENV_PATH /\ overlay' = activate_env(VENV_PATH)
              /\ \E rc \in RCs :
                   /\ spawned' = Append(spawned, Proc("script", <<bins[1], <<"script.py">>>>, rc))
                   /\ IF check_raises(rc)
                        THEN exitCode' = ExitUncaught /\ logs' = Append(logs, "INFO")
                        ELSE exitCode' = ExitOK /\ logs' = logs \o <<"INFO", "SUCCESS">>
    /\ UNCHANGED <<verb, pkgs, scriptIsFile, euid0, filesystem, bins, environ,
                   listing, history>>

\* What the parser can hand to main(): package lists go with install and
\* remove only, a script with run only.
ArgLists(v) == IF v \in {"install", "remove"} THEN PkgLists ELSE {<<>>}
ScriptStates(v) == IF v = "run" THEN BOOLEAN ELSE {FALSE}

Next ==
    \/ \E v \in Verbs, root \in BOOLEAN :
          \E ps \in ArgLists(v), sf \in ScriptStates(v) : main(v, ps, sf, root)
    \/ ensure_venv_create
    \/ ensure_venv_chown
    \/ cmd_install
    \/ cmd_list
    \/ cmd_remove
    \/ cmd_update_pip
    \/ cmd_update_outdated
    \/ cmd_update_batch
    \/ cmd_run

Spec == Init /\ [][Next]_vars

\* ---- activate_env as a function of the inherited environment ------------------------
PathTokens == {"/usr/bin", "/bin", pathsep}
PathValues == UNION {[1..n -> PathTokens] : n \in 0..MaxPathLen}
Environs ==
    {[k \in K \cup {"HOME"} |->
         IF k = "PATH" THEN pv
         ELSE IF k = "PYTHONHOME" THEN <<"/opt/py">>
         ELSE IF k = "VIRTUAL_ENV" THEN <<"/old">>
         ELSE <<"~">>] :
       K \in SUBSET {"PATH", "PYTHONHOME", "VIRTUAL_ENV"}, pv \in PathValues}
Paths == {VENV_PATH, <<"/opt", "/", "venv">>}

InitEnv == Fresh /\ environ \in Environs

ActivateEnv(p) ==
    /\ venvArg' = p
    /\ overlay' = activate_env(p)
    /\ UNCHANGED <<invocation, filesystem, environ, history>>

NextEnv == \E p \in Paths : ActivateEnv(p)

SpecEnv == InitEnv /\ [][NextEnv]_vars

\* ---- properties ---------------------------------------------------------------------
Kinds(s) == [i \in 1..Len(s) |-> s[i].kind]
AllSucceeded == \A i \in 1..Len(spawned) : spawned[i].rc = 0
BootstrapKinds == {"venv", "chown"}
\* The processes of the verb handler itself, after ensure_venv's.
HandlerProcs == SelectSeq(spawned, LAMBDA p : p.kind \notin BootstrapKinds)
\* PATH as the list of its entries.
PathEntries(s) == Split(s, pathsep)

\* C1: whichever external process is the first to exit with a non-zero code
\* c, no further process is spawned and the invocation's exit code is c.
C1_FirstFailurePropagated ==
    \A i \in 1..Len(spawned) :
        (spawned[i].rc # 0 /\ \A j \in 1..(i - 1) : spawned[j].rc = 0)
        => /\ Len(spawned) = i
           /\ pc = "done"
           /\ exitCode = spawned[i].rc

\* C2 (as stated): `run` of a path that is not a regular file exits 1 and has
\* spawned no sub-process at all, whatever the state of the venv directory.
C2_RunMissingSpawnsNothing ==
    (verb = "run" /\ ~scriptIsFile)
    => /\ spawned = <<>>
       /\ pc = "done" => exitCode = 1

\* C2 (amended): `run` of a path that is not a regular file exits 1 and
\* spawns neither the interpreter nor pip; the only processes are those of
\* ensure_venv (the venv creation, the chown).
C2_RunMissingSpawnsNoScript ==
    (verb = "run" /\ ~scriptIsFile)
    => /\ \A i \in 1..Len(spawned) : spawned[i].kind \in BootstrapKinds
       /\ pc = "done" => exitCode = 1

C2_Witness ==
    /\ verb = "run" /\ ~scriptIsFile /\ pc = "done"
    /\ Kinds(spawned) = <<"venv">> /\ spawned[1].rc = 0
    /\ logs = <<"INFO", "ERROR">>

\* C3: once an ensure_venv call has returned, a later call spawns no venv
\* creation and returns the pair the first call returned.
C3_EnsureVenvIdempotent ==
    [][ensured # <<>>
       => /\ Len(spawned') > Len(spawned) => Last(spawned').kind # "venv"
          /\ bins' # <<>> => bins' = ensured]_vars

\* A later invocation (an earlier one has installed something) whose
\* ensure_venv has returned.
C3_Witness ==
    /\ ensured # <<>> /\ bins = ensured
    /\ verb = "list" /\ installed # {}
    /\ pc \notin {"idle", "ensure_venv", "ownership"}
    /\ \A i \in 1..Len(spawned) : spawned[i].kind # "venv"

\* C4: an `update` of a venv with nothing outdated, none of whose processes
\* fails, runs the pip self-upgrade, then the outdated query, no batch
\* upgrade, logs SUCCESS last and exits 0.
C4_NothingOutdatedNoBatch ==
    (/\ verb = "update" /\ pc = "done" /\ AllSucceeded
     /\ \A i \in 1..Len(spawned) : spawned[i].reported = {})
    => /\ Kinds(HandlerProcs) = <<"selfupgrade", "query">>
       /\ logs # <<>> /\ Last(logs) = "SUCCESS"
       /\ Len(SelectSeq(logs, LAMBDA l : l = "SUCCESS")) = 1
       /\ exitCode = 0

C4_Witness ==
    /\ verb = "update" /\ pc = "done" /\ installed = PkgNames /\ AllSucceeded
    /\ Kinds(HandlerProcs) = <<"selfupgrade", "query">>
    /\ Last(spawned).out = <<>>
    /\ exitCode = 0

\* C5: the mapping activate_env(p) returns has no PYTHONHOME, has
\* VIRTUAL_ENV = p, and its PATH entries are p/bin followed by the inherited
\* PATH entries (none when PATH is not set) in their order.
C5_OverlayPath ==
    DOMAIN overlay # {}
    => /\ "PYTHONHOME" \notin DOMAIN overlay
       /\ overlay["VIRTUAL_ENV"] = venvArg
       /\ PathEntries(overlay["PATH"]) =
              <<BinDir(venvArg)>> \o
              (IF "PATH" \in DOMAIN environ THEN PathEntries(environ["PATH"]) ELSE <<>>)

\* C6: when the venv directory is not writable and the caller is not root,
\* ensure_venv returns no executable paths and no pip or interpreter process
\* is spawned.
C6_PermissionErrorStops ==
    (dirExists /\ ~writable /\ ~euid0 /\ pc \notin {"idle", "ensure_venv", "ownership"})
    => /\ bins = <<>>
       /\ \A i \in 1..Len(spawned) : spawned[i].kind \in BootstrapKinds

\* C7 (as stated): `install` or `remove` with no package exits 1, and neither
\* ensure_venv nor any external process has run.
C7_EmptyListExits1 ==
    (verb \in {"install", "remove"} /\ pkgs = <<>>)
    => /\ pc = "done" /\ exitCode = 1
       /\ bins = <<>> /\ spawned = <<>> /\ logs = <<>>

\* C7 (amended): `install` or `remove` with no package exits 2 (the argument
\* parser's usage error), and neither ensure_venv nor any external process
\* has run.
C7_EmptyListExits2 ==
    (verb \in {"install", "remove"} /\ pkgs = <<>>)
    => /\ pc = "done" /\ exitCode = 2
       /\ bins = <<>> /\ spawned = <<>> /\ logs = <<>>

C7_Witness ==
    /\ verb = "remove" /\ pkgs = <<>> /\ pc = "done"
    /\ dirExists /\ installed # {}

\* C8: a `list` that succeeds runs the pip of the venv the installs went to,
\* and prints every package name of every successful `install` since the
\* last `remove`.
C8_InstallThenList ==
    (verb = "list" /\ pc = "done" /\ exitCode = 0)
    => /\ wanted \subseteq listing
       /\ Last(spawned).kind = "list"
       /\ Last(spawned).argv[1] = JoinBin(VENV_PATH, "pip")
       /\ overlay["VIRTUAL_ENV"] = VENV_PATH

C8_Witness ==
    /\ verb = "list" /\ pc = "done" /\ exitCode = 0
    /\ Cardinality(wanted) = NumPkgs
    /\ wanted \subseteq listing

\* C9: when the outdated query reports a non-empty set S, `update` spawns
\* exactly one batch upgrade, after the self-upgrade and the query, with
\* exactly the names of S as its package arguments, one each.
C9_BatchUpgradesReported ==
    \A q \in 1..Len(spawned) :
        (spawned[q].kind = "query" /\ spawned[q].reported # {} /\ pc = "done")
        => /\ Len(spawned) = q + 1
           /\ spawned[q + 1].kind = "batch"
           /\ spawned[q - 1].kind = "selfupgrade"
           /\ LET args == SubSeq(spawned[q + 1].argv, 4, Len(spawned[q + 1].argv))
              IN  /\ Range(args) = spawned[q].reported
                  /\ Len(args) = Cardinality(spawned[q].reported)

C9_Witness ==
    /\ verb = "update" /\ pc = "done" /\ Len(spawned) >= 3
    /\ Last(spawned).kind = "batch"
    /\ Cardinality(spawned[Len(spawned) - 1].reported) = NumPkgs

\* C10: SUCCESS is logged only when every external process of the
\* invocation so far exited 0.
C10_SuccessOnlyAfterSuccess ==
    (\E i \in 1..Len(logs) : logs[i] = "SUCCESS") => AllSucceeded

====
